---------------------------- MODULE Spec2Model ----------------------------
(***************************************************************************)
(* A model of atlas.py: the script that fetches heliocentric positions of *)
(* comet 3I/ATLAS and of Earth, Mars and Jupiter from JPL Horizons,        *)
(* computes the index of the highlighted date, builds a 3D scene, drives   *)
(* update(frame) through FuncAnimation, exports an MP4, shows the plot and *)
(* prints the highlighted position.                                        *)
(*                                                                         *)
(* Python sequences are 0-based, TLA+ sequences 1-based: Python's s[i] is  *)
(* s[i + 1] here.  A float is a record [m, e] standing for m * 10^e, so    *)
(* that the fill value 1e10 is a value of the model.                       *)
(***************************************************************************)
EXTENDS Integers, Sequences, FiniteSets, TLC

VARIABLES
    pc,                \* the line of the script that runs next
    start_date,        \* line 26
    stop_date,         \* line 27
    vecs,              \* id -> the table Horizons returned for it (lines 33, 42)
    fetches,           \* id -> number of queries made for it
    x, y, z,           \* the comet's filled columns (lines 34-36)
    planet_positions,  \* planet -> its filled columns (lines 39-47)
    todo,              \* what the loop of line 40 still has to visit
    nov1_date,         \* line 50
    nov1_index,        \* line 52
    highlight,         \* the point scattered at line 70
    line,              \* the trajectory artist (line 73)
    comet_marker,      \* line 74
    planet_markers,    \* lines 77-81
    returned,          \* what the last call of update returned
    frames,            \* the frames argument of FuncAnimation (line 119)
    calls,             \* the frame arguments update got in the current pass
    video,             \* the frames grabbed into comet_trajectory.mp4
    shown,             \* plt.show() has opened the window
    console,           \* what was printed
    error              \* the exception that ended the script

vars == <<pc, start_date, stop_date, vecs, fetches, x, y, z, planet_positions,
          todo, nov1_date, nov1_index, highlight, line, comet_marker,
          planet_markers, returned, frames, calls, video, shown, console,
          error>>

---------------------------------------------------------------------------
(* Bounds of the model *)

\* the stop date is at most this many days after the start date
MaxSpan == 4

\* the highlighted date is at most this many days outside [start, stop]
MaxOutside == 2

\* the responses of one run hold at most this many masked cells between them
MaxMasked == 1

---------------------------------------------------------------------------
(* Python's numbers and sequences *)

Float(m, e) == [m |-> m, e |-> e]

\* int(a / b) for b > 0: true division, then truncation toward zero
PyIntDiv(a, b) == IF a >= 0 THEN a \div b ELSE -((-a) \div b)

\* floor(a / b), the mathematical floor
FloorDiv(a, b) == a \div b

\* s[i] does not raise IndexError
PyIndexable(s, i) == -Len(s) <= i /\ i < Len(s)

\* s[i], negative i counting from the end
PyGet(s, i) == IF i >= 0 THEN s[i + 1] ELSE s[Len(s) + i + 1]

Min(a, b) == IF a <= b THEN a ELSE b

Max(a, b) == IF a >= b THEN a ELSE b

\* s[:stop]
PySliceTo(s, stop) ==
    IF stop >= 0 THEN SubSeq(s, 1, Min(stop, Len(s)))
    ELSE SubSeq(s, 1, Max(Len(s) + stop, 0))

---------------------------------------------------------------------------
(* Dates: datetime objects are records [year, month, day]; the date       *)
(* strings of lines 26-27 are records [Y, b, d] of their three fields.     *)

Date(yr, mo, dy) == [year |-> yr, month |-> mo, day |-> dy]

DateString(yr, abbr, dy) == [Y |-> yr, b |-> abbr, d |-> dy]

MonthAbbr == <<"Jan", "Feb", "Mar", "Apr", "May", "Jun",
               "Jul", "Aug", "Sep", "Oct", "Nov", "Dec">>

MonthNumber(abbr) == CHOOSE mo \in 1..12 : MonthAbbr[mo] = abbr

\* datetime.strptime(s, '%Y-%b-%d')
Strptime(s) == Date(s.Y, MonthNumber(s.b), s.d)

IsLeap(yr) == yr % 4 = 0 /\ (yr % 100 # 0 \/ yr % 400 = 0)

DaysInMonth(yr, mo) ==
    IF mo = 2 THEN (IF IsLeap(yr) THEN 29 ELSE 28)
    ELSE IF mo \in {4, 6, 9, 11} THEN 30 ELSE 31

RECURSIVE DaysBeforeMonth(_, _)
DaysBeforeMonth(yr, mo) ==
    IF mo = 1 THEN 0
    ELSE DaysBeforeMonth(yr, mo - 1) + DaysInMonth(yr, mo - 1)

DaysBeforeYear(yr) ==
    (yr - 1) * 365 + (yr - 1) \div 4 - (yr - 1) \div 100 + (yr - 1) \div 400

\* date.toordinal()
ToOrdinal(dt) == DaysBeforeYear(dt.year) + DaysBeforeMonth(dt.year, dt.month) + dt.day

\* (a - b).days for two midnights
DaysBetween(a, b) == ToOrdinal(a) - ToOrdinal(b)

\* dt.strftime('%Y-%b-%d')
Strftime(dt) == DateString(dt.year, MonthAbbr[dt.month], dt.day)

\* the calendar days the model draws its dates from
Calendar ==
    {dt \in [year : {2025}, month : {10, 11}, day : 1..31] :
        dt.day <= DaysInMonth(dt.year, dt.month)}

---------------------------------------------------------------------------
(* The script's constants *)

obj_id == "C/2025 N1"

\* a wrong id in the table: Earth's entry names the comet
planet_ids_EarthIsComet == [Earth |-> "C/2025 N1", Mars |-> "499", Jupiter |-> "599"]

planet_ids == [Earth |-> "399", Mars |-> "499", Jupiter |-> "599"]

\* dict order: the order planet_ids.items() and planet_markers.items() yield
PlanetOrder == <<"Earth", "Mars", "Jupiter">>

Planets == {PlanetOrder[i] : i \in DOMAIN PlanetOrder}

\* '2d'
step_size == [n |-> 2, unit |-> "d"]

\* the divisor of line 52
IndexDivisor == 2

\* the fill value of lines 34-36 and 44-46: 1e10
FillValue == Float(1, 10)

Coords == {"x", "y", "z"}

\* the start date of line 26
StartDates == {DateString(2025, "Nov", 1)}

\* the stop dates tried for a start date
StopDates(start) ==
    {Strftime(dt) : dt \in {c \in Calendar :
        /\ DaysBetween(c, Strptime(start)) >= 1
        /\ DaysBetween(c, Strptime(start)) <= MaxSpan}}

\* the highlighted dates tried
TargetDates(start, stop) ==
    {c \in Calendar :
        /\ DaysBetween(c, Strptime(start)) >= -MaxOutside
        /\ DaysBetween(c, Strptime(stop)) <= MaxOutside}

---------------------------------------------------------------------------
(* JPL Horizons, as the script uses it: one row per epoch of the query,    *)
(* start, start + step, ... up to stop; a column is a masked array, each   *)
(* element a record [data, mask].                                          *)

Epochs(start, stop, step) == [start |-> start, stop |-> stop, step |-> step]

\* the number of rows of the table for a query
EpochCount(epochs) ==
    DaysBetween(Strptime(epochs.stop), Strptime(epochs.start)) \div epochs.step.n + 1

BodyNo(id) ==
    CASE id = "C/2025 N1" -> 1 [] id = "399" -> 2 [] id = "499" -> 3 [] id = "599" -> 4

CoordNo(c) == CASE c = "x" -> 1 [] c = "y" -> 2 [] c = "z" -> 3

\* the position of a body at its i-th epoch: every body, coordinate and epoch
\* has a value of its own
Ephemeris(id, c, i) == Float(BodyNo(id) * 100 + CoordNo(c) * 10 + i, 0)

\* the masked cells of the tables received so far
MaskedCells(tables) ==
    UNION {{<<id, c, i>> : i \in {j \in DOMAIN tables[id][c] : tables[id][c][j].mask}} :
           id \in DOMAIN tables, c \in Coords}

\* the sets of cells an n-row response may hold masked
MaskSets(n, budget) ==
    {ms \in SUBSET (Coords \X (1..n)) : Cardinality(ms) <= budget}

\* Horizons(id, location, epochs).vectors(): the tables the service may return
\* when the tables received so far are `tables`
Vectors(id, epochs, tables) ==
    {[c \in Coords |->
        [i \in 1..EpochCount(epochs) |->
            [data |-> Ephemeris(id, c, i), mask |-> <<c, i>> \in ms]]] :
     ms \in MaskSets(EpochCount(epochs), MaxMasked - Cardinality(MaskedCells(tables)))}

\* column.data.filled(fill)
Filled(col, fill) ==
    [i \in DOMAIN col |-> IF col[i].mask THEN fill ELSE col[i].data]

\* the epochs of the comet's query (line 32)
CometEpochs == Epochs(start_date, stop_date, step_size)

\* the planets queried in the 5-day steps the comments speak of
PlanetEpochsFiveDay == Epochs(start_date, stop_date, [n |-> 5, unit |-> "d"])

\* the epochs of a planet's query (line 41)
PlanetEpochs == Epochs(start_date, stop_date, step_size)

\* the z column taken without filled()
PlanetEntryUnfilledZ(planet_vecs) ==
    [x |-> Filled(planet_vecs["x"], FillValue),
     y |-> Filled(planet_vecs["y"], FillValue),
     z |-> [i \in DOMAIN planet_vecs["z"] |-> planet_vecs["z"][i].data]]

\* the dict entry of lines 43-47
PlanetEntry(planet_vecs) ==
    [x |-> Filled(planet_vecs["x"], FillValue),
     y |-> Filled(planet_vecs["y"], FillValue),
     z |-> Filled(planet_vecs["z"], FillValue)]

---------------------------------------------------------------------------
(* The script *)

EmptyArtist == [x |-> <<>>, y |-> <<>>, z |-> <<>>]

NoDate == Date(0, 0, 0)

Init ==
    /\ pc = "fetch_comet"
    /\ start_date \in StartDates
    /\ stop_date \in StopDates(start_date)
    /\ vecs = <<>>
    /\ fetches = [id \in {obj_id} \cup {planet_ids[p] : p \in Planets} |-> 0]
    /\ x = <<>> /\ y = <<>> /\ z = <<>>
    /\ planet_positions = <<>>
    /\ todo = PlanetOrder
    /\ nov1_date = NoDate
    /\ nov1_index = 0
    /\ highlight = <<>>
    /\ line = EmptyArtist
    /\ comet_marker = EmptyArtist
    /\ planet_markers = [p \in Planets |-> EmptyArtist]
    /\ returned = <<>>
    /\ frames = 0
    /\ calls = <<>>
    /\ video = <<>>
    /\ shown = FALSE
    /\ console = <<>>
    /\ error = "none"

Config == <<start_date, stop_date>>

Data == <<vecs, fetches, x, y, z, planet_positions, todo>>

Index == <<nov1_date, nov1_index>>

Artists == <<line, comet_marker, planet_markers, returned, calls>>

Output == <<video, shown, console>>

\* an unhandled exception ends the script
Raise(kind) == pc' = "crashed" /\ error' = kind

\* lines 32-36
FetchComet ==
    /\ pc = "fetch_comet"
    /\ \E table \in Vectors(obj_id, CometEpochs, vecs) :
        /\ vecs' = (obj_id :> table) @@ vecs
        /\ x' = Filled(table["x"], FillValue)
        /\ y' = Filled(table["y"], FillValue)
        /\ z' = Filled(table["z"], FillValue)
    /\ fetches' = [fetches EXCEPT ![obj_id] = @ + 1]
    /\ pc' = "fetch_planets"
    /\ UNCHANGED <<Config, planet_positions, todo, Index, highlight, Artists,
                   frames, Output, error>>

\* where the loop of line 40 goes after one planet
LoopRest(rest) == Tail(rest)

\* lines 40-47, one iteration
FetchPlanet ==
    /\ pc = "fetch_planets"
    /\ todo # <<>>
    /\ LET planet == Head(todo)
           pid == planet_ids[planet]
       IN  /\ \E planet_vecs \in Vectors(pid, PlanetEpochs, vecs) :
                /\ vecs' = (pid :> planet_vecs) @@ vecs
                /\ planet_positions' =
                       (planet :> PlanetEntry(planet_vecs)) @@ planet_positions
           /\ fetches' = [fetches EXCEPT ![pid] = @ + 1]
    /\ todo' = LoopRest(todo)
    /\ pc' = IF todo' = <<>> THEN "index" ELSE "fetch_planets"
    /\ UNCHANGED <<Config, x, y, z, Index, highlight, Artists, frames, Output,
                   error>>

\* a failed query that is tried again instead of ending the script
FetchFailedRetried ==
    /\ pc \in {"fetch_comet", "fetch_planets"}
    /\ error' = "fetch"
    /\ UNCHANGED <<pc, Config, Data, Index, highlight, Artists, frames, Output>>

\* lines 33 and 42: the query fails (network, service) and vectors() raises
FetchFailed ==
    /\ pc \in {"fetch_comet", "fetch_planets"}
    /\ Raise("fetch")
    /\ UNCHANGED <<Config, Data, Index, highlight, Artists, frames, Output>>

\* the index rounded to the nearest step instead of truncated
DateIndexRounded(target, start_dt) ==
    PyIntDiv(DaysBetween(target, start_dt) + 1, IndexDivisor)

\* the index taken in the 5-day steps the comment of line 52 speaks of
DateIndexFiveDay(target, start_dt) == PyIntDiv(DaysBetween(target, start_dt), 5)

\* line 52
DateIndex(target, start_dt) == PyIntDiv(DaysBetween(target, start_dt), IndexDivisor)

\* lines 50-52
ComputeIndex ==
    /\ pc = "index"
    /\ \E target \in TargetDates(start_date, stop_date) :
        /\ nov1_date' = target
        /\ nov1_index' = DateIndex(target, Strptime(start_date))
    /\ pc' = "scene"
    /\ UNCHANGED <<Config, Data, highlight, Artists, frames, Output, error>>

\* lines 55-99: the point of line 70 is the only part that reads the data
BuildScene ==
    /\ pc = "scene"
    /\ IF PyIndexable(x, nov1_index)
       THEN /\ highlight' = <<PyGet(x, nov1_index), PyGet(y, nov1_index),
                              PyGet(z, nov1_index)>>
            /\ pc' = "animate"
            /\ error' = error
       ELSE /\ Raise("IndexError")
            /\ highlight' = highlight
    /\ UNCHANGED <<Config, Data, Index, Artists, frames, Output>>

\* one frame too many
FrameCountPlusOne(xs) == Len(xs) + 1

\* line 119: frames=len(x)
FrameCount(xs) == Len(xs)

\* the slice that stops before the current frame
PathSliceExclusive(s, frame) == PySliceTo(s, frame)

\* lines 104-105: the slice drawn as the path
PathSlice(s, frame) == PySliceTo(s, frame + 1)

\* the marker one frame behind
MarkerSamplePrevious(s, frame) == <<PyGet(s, frame - 1)>>

\* lines 106-107 and 112-113: the one-point list drawn as a marker
MarkerSample(s, frame) == <<PyGet(s, frame)>>

\* the marker of a body whose columns are px, py, pz
MarkerAt(px, py, pz, frame) ==
    [x |-> MarkerSample(px, frame), y |-> MarkerSample(py, frame),
     z |-> MarkerSample(pz, frame)]

\* a planet's lookups of lines 112-113 succeed
PlanetReadable(planet, frame) ==
    /\ planet \in DOMAIN planet_positions
    /\ PyIndexable(planet_positions[planet].x, frame)
    /\ PyIndexable(planet_positions[planet].y, frame)
    /\ PyIndexable(planet_positions[planet].z, frame)

\* the planets the loop of line 111 gets through before a lookup raises
PlanetsDrawn(frame) ==
    {PlanetOrder[i] : i \in {j \in DOMAIN PlanetOrder :
        \A k \in 1..j : PlanetReadable(PlanetOrder[k], frame)}}

\* the list of line 110 with the markers line 114 appends
ArtistList == <<"line", "comet_marker">> \o PlanetOrder

\* lines 102-116: update(frame); an IndexError ends the script where it is
\* raised, with the artists set so far
Update(frame) ==
    /\ calls' = Append(calls, frame)
    /\ line' = [x |-> PathSlice(x, frame), y |-> PathSlice(y, frame),
                z |-> PathSlice(z, frame)]
    /\ IF ~(PyIndexable(x, frame) /\ PyIndexable(y, frame) /\ PyIndexable(z, frame))
       THEN /\ Raise("IndexError")
            /\ UNCHANGED <<comet_marker, planet_markers, returned>>
       ELSE /\ comet_marker' = MarkerAt(x, y, z, frame)
            /\ planet_markers' =
                   [p \in Planets |->
                       IF p \in PlanetsDrawn(frame)
                       THEN MarkerAt(planet_positions[p].x, planet_positions[p].y,
                                     planet_positions[p].z, frame)
                       ELSE planet_markers[p]]
            /\ IF PlanetsDrawn(frame) = Planets
               THEN returned' = ArtistList /\ UNCHANGED <<pc, error>>
               ELSE Raise("IndexError") /\ returned' = returned

\* line 119
CreateAnimation ==
    /\ pc = "animate"
    /\ frames' = FrameCount(x)
    /\ pc' = "save"
    /\ UNCHANGED <<Config, Data, Index, highlight, Artists, Output, error>>

\* lines 129-131: the writer starts the encoder
SaveStart ==
    /\ pc = "save"
    /\ console' = Append(console, "Saving slow high-quality MP4")
    /\ calls' = <<>>
    /\ pc' = "saving"
    /\ UNCHANGED <<Config, Data, Index, highlight, line, comet_marker,
                   planet_markers, returned, frames, video, shown, error>>

\* line 131: ffmpeg is not installed and ani.save raises
EncoderMissing ==
    /\ pc = "save"
    /\ console' = Append(console, "Saving slow high-quality MP4")
    /\ Raise("encoder")
    /\ UNCHANGED <<Config, Data, Index, highlight, Artists, frames, video, shown>>

\* line 131: ani.save draws the next frame and grabs it
SaveFrame ==
    /\ pc = "saving"
    /\ Len(calls) < frames
    /\ Update(Len(calls))
    /\ video' = IF pc' = "crashed" THEN video ELSE Append(video, Len(calls))
    /\ UNCHANGED <<Config, Data, Index, highlight, frames, shown, console>>

\* lines 131-134: the last frame is written and the file closed
SaveFinish ==
    /\ pc = "saving"
    /\ Len(calls) = frames
    /\ console' = Append(console, "MP4 saved")
    /\ pc' = "show"
    /\ UNCHANGED <<Config, Data, Index, highlight, Artists, frames, video, shown,
                   error>>

\* line 144: plt.show() opens the window and starts the animation
Show ==
    /\ pc = "show"
    /\ shown' = TRUE
    /\ calls' = <<>>
    /\ pc' = "showing"
    /\ UNCHANGED <<Config, Data, Index, highlight, line, comet_marker,
                   planet_markers, returned, frames, video, console, error>>

\* line 144: the timer of the shown animation draws the next frame
ShowFrame ==
    /\ pc = "showing"
    /\ Len(calls) < frames
    /\ Update(Len(calls))
    /\ UNCHANGED <<Config, Data, Index, highlight, frames, Output>>

\* line 144: repeat is left at its default, so a finished pass starts again
ShowRepeat ==
    /\ pc = "showing"
    /\ Len(calls) = frames
    /\ calls' = <<>>
    /\ UNCHANGED <<pc, Config, Data, Index, highlight, line, comet_marker,
                   planet_markers, returned, frames, Output, error>>

\* line 144: the user closes the window and plt.show() returns
CloseWindow ==
    /\ pc = "showing"
    /\ pc' = "print"
    /\ UNCHANGED <<Config, Data, Index, highlight, Artists, frames, Output, error>>

\* lines 147-148
PrintPosition ==
    /\ pc = "print"
    /\ IF PyIndexable(x, nov1_index)
       THEN /\ console' = console \o <<"Approximate comet position", "Distance from Sun">>
            /\ pc' = "done"
            /\ error' = error
       ELSE /\ Raise("IndexError")
            /\ console' = console
    /\ UNCHANGED <<Config, Data, Index, highlight, Artists, frames, video, shown>>

Next ==
    \/ FetchComet
    \/ FetchPlanet
    \/ FetchFailed
    \/ ComputeIndex
    \/ BuildScene
    \/ CreateAnimation
    \/ SaveStart
    \/ EncoderMissing
    \/ SaveFrame
    \/ SaveFinish
    \/ Show
    \/ ShowFrame
    \/ ShowRepeat
    \/ CloseWindow
    \/ PrintPosition

Spec == Init /\ [][Next]_vars

---------------------------------------------------------------------------
(* What the properties below speak of *)

\* line 52 has run
IndexComputed == nov1_date # NoDate

\* days from the start date to the highlighted date
TargetOffset == DaysBetween(nov1_date, Strptime(start_date))

\* the highlighted date lies outside [start_date, stop_date]
TargetOutOfRange ==
    \/ DaysBetween(nov1_date, Strptime(start_date)) < 0
    \/ DaysBetween(nov1_date, Strptime(stop_date)) > 0

\* all four queries have returned
FetchDone == pc \notin {"fetch_comet", "fetch_planets"} /\ error # "fetch"

\* update has been called in this pass and its last call returned
UpdateReturned == calls # <<>> /\ pc # "crashed"

\* the frame of the last call of update
LastFrame == calls[Len(calls)]

\* line 147 has printed the highlighted position
PositionPrinted == \E i \in DOMAIN console : console[i] = "Approximate comet position"

\* the filled columns the script keeps for a queried id
StoredColumns(id) ==
    IF id = obj_id THEN [x |-> x, y |-> y, z |-> z]
    ELSE planet_positions[CHOOSE p \in Planets : planet_ids[p] = id]

---------------------------------------------------------------------------
(* The Date Indexer *)

\* C1, as stated: for every target date the computed highlight index is
\* floor((target - start) / step), step being the step size of the query; and
\* start = 2025-11-01, step = 2 days, target = 2025-11-01 gives index 0.
C1_IndexIsFloor ==
    IndexComputed =>
        /\ nov1_index = FloorDiv(TargetOffset, step_size.n)
        /\ (start_date = DateString(2025, "Nov", 1) /\ nov1_date = Date(2025, 11, 1)
                => nov1_index = 0)

\* C1, amended: for every target date on or after the start date the computed
\* index is floor((target - start) / step); start = 2025-11-01, step = 2
\* days, target = 2025-11-01 gives index 0.
C1_IndexIsFloorFromStart ==
    IndexComputed /\ TargetOffset >= 0 =>
        /\ nov1_index = FloorDiv(TargetOffset, step_size.n)
        /\ (start_date = DateString(2025, "Nov", 1) /\ nov1_date = Date(2025, 11, 1)
                => nov1_index = 0)

\* C1's case: a target three days after the start, between two epochs
C1_Witness ==
    /\ IndexComputed
    /\ start_date = DateString(2025, "Nov", 1)
    /\ nov1_date = Date(2025, 11, 4)
    /\ nov1_index = 1

\* C10, as stated: a target outside [start, stop] gives an index outside
\* [0, N), and the highlight lookup selects no sample for it.
C10_OutOfRangeTargetOutOfRangeIndex ==
    IndexComputed /\ TargetOutOfRange =>
        /\ ~(0 <= nov1_index /\ nov1_index < Len(x))
        /\ highlight = <<>>
        /\ ~PositionPrinted

\* C10, amended: a target at least N * step days after the start date gives
\* an index >= N; the lookup of line 70 raises IndexError and ends the script,
\* so no sample is scattered or printed for it.
C10_BeyondLastStepRaises ==
    IndexComputed /\ TargetOffset >= Len(x) * step_size.n =>
        /\ nov1_index >= Len(x)
        /\ highlight = <<>>
        /\ ~PositionPrinted
        /\ pc \in {"scene", "crashed"}
        /\ (pc = "crashed" => error = "IndexError" /\ calls = <<>>)

\* C10's case: such a target has ended the script at line 70
C10_Witness ==
    /\ IndexComputed
    /\ TargetOffset >= Len(x) * step_size.n
    /\ TargetOutOfRange
    /\ pc = "crashed"
    /\ error = "IndexError"

---------------------------------------------------------------------------
(* The Animator *)

\* C2: after update(k), 0 <= k < N, the drawn path holds exactly the first
\* k + 1 samples of the comet's x, y and z, in order, whatever was drawn before.
C2_PathIsPrefix ==
    UpdateReturned =>
        /\ 0 <= LastFrame /\ LastFrame < Len(x)
        /\ Len(line.x) = LastFrame + 1
        /\ Len(line.y) = LastFrame + 1
        /\ Len(line.z) = LastFrame + 1
        /\ \A i \in 1..(LastFrame + 1) :
            line.x[i] = x[i] /\ line.y[i] = y[i] /\ line.z[i] = z[i]

\* C2's case: update(1) of a three-sample run, drawn in the shown animation
\* after the export had drawn every frame
C2_Witness ==
    /\ pc = "showing"
    /\ Len(x) = 3
    /\ calls = <<0, 1>>
    /\ Len(video) = 3
    /\ line.x = <<x[1], x[2]>>

\* C3: after update(k) the comet marker holds the comet's sample k and each
\* planet marker its planet's sample k; at frame N - 1 that is the last sample
\* of the body's sequence; update returns the five animated artists.
C3_MarkersAtFrame ==
    UpdateReturned =>
        LET k == LastFrame
        IN  /\ comet_marker = [x |-> <<x[k + 1]>>, y |-> <<y[k + 1]>>, z |-> <<z[k + 1]>>]
            /\ \A p \in Planets :
                planet_markers[p] = [x |-> <<planet_positions[p].x[k + 1]>>,
                                     y |-> <<planet_positions[p].y[k + 1]>>,
                                     z |-> <<planet_positions[p].z[k + 1]>>]
            /\ (k = Len(x) - 1 =>
                /\ comet_marker.x = <<x[Len(x)]>>
                /\ comet_marker.y = <<y[Len(y)]>>
                /\ comet_marker.z = <<z[Len(z)]>>
                /\ \A p \in Planets :
                    /\ planet_markers[p].x =
                           <<planet_positions[p].x[Len(planet_positions[p].x)]>>
                    /\ planet_markers[p].y =
                           <<planet_positions[p].y[Len(planet_positions[p].y)]>>
                    /\ planet_markers[p].z =
                           <<planet_positions[p].z[Len(planet_positions[p].z)]>>)
            /\ returned = <<"line", "comet_marker", "Earth", "Mars", "Jupiter">>

\* C3's case: the last frame of a three-sample run has been drawn
C3_Witness ==
    /\ UpdateReturned
    /\ Len(x) = 3
    /\ LastFrame = 2
    /\ comet_marker.x = <<x[3]>>
    /\ planet_markers["Jupiter"].z = <<planet_positions["Jupiter"].z[3]>>

---------------------------------------------------------------------------
(* The Ephemeris Fetcher *)

\* C5: after the fetch phase the comet's and every planet's x, y and z have
\* one length N, so every frame in [0, N), N = len(x), indexes every planet's
\* sequence and update never reads outside a sequence.
C5_EqualLength ==
    FetchDone =>
        /\ Len(y) = Len(x) /\ Len(z) = Len(x)
        /\ \A p \in Planets :
            /\ Len(planet_positions[p].x) = Len(x)
            /\ Len(planet_positions[p].y) = Len(x)
            /\ Len(planet_positions[p].z) = Len(x)
        /\ frames \in {0, Len(x)}
        /\ \A i \in 1..Len(calls) : \A p \in Planets :
            0 <= calls[i] /\ calls[i] < Len(planet_positions[p].z)
        /\ (error = "IndexError" => calls = <<>>)

\* C5's case: every frame of a three-sample run has been drawn
C5_Witness ==
    /\ FetchDone
    /\ Len(x) = 3
    /\ Len(planet_positions["Mars"].y) = 3
    /\ Len(calls) = 3

\* C6: in every column the script keeps, a masked cell of the response holds
\* 1e10 and any other cell the response's value, at the same index; a response
\* with masked cells is kept like any other, with its length.
C6_SentinelFill ==
    \A id \in DOMAIN vecs : \A c \in Coords :
        /\ Len(StoredColumns(id)[c]) = Len(vecs[id][c])
        /\ \A i \in DOMAIN vecs[id][c] :
            StoredColumns(id)[c][i] =
                IF vecs[id][c][i].mask THEN Float(1, 10) ELSE vecs[id][c][i].data

\* C6's case: a planet's response had a masked z and the script went on
C6_Witness ==
    /\ pc = "done"
    /\ \E p \in Planets : \E i \in 1..Len(x) :
        /\ vecs[planet_ids[p]]["z"][i].mask
        /\ planet_positions[p].z[i] = Float(1, 10)
        /\ planet_positions[p].x[i] = vecs[planet_ids[p]]["x"][i].data

\* C7: each body is queried exactly once, every query has returned before the
\* index, the scene, the animation or the export begins, and no step after the
\* fetch phase changes a body's sequence.
C7_DataLifecycle ==
    [][/\ \A id \in DOMAIN fetches : fetches'[id] <= 1
       /\ Cardinality(DOMAIN fetches) = 4
       /\ (pc' \notin {"fetch_comet", "fetch_planets"} /\ error' # "fetch"
             => \A id \in DOMAIN fetches : fetches'[id] = 1)
       /\ (pc \notin {"fetch_comet", "fetch_planets"}
             => UNCHANGED <<x, y, z, planet_positions, fetches, vecs>>)]_vars

\* C7's case: the script ran to its end, frames drawn and position printed
C7_Witness ==
    /\ pc = "done"
    /\ \A id \in DOMAIN fetches : fetches[id] = 1
    /\ Len(video) = Len(x)
    /\ PositionPrinted

\* C8: a failed query ends the script there: no retry, no update call, no
\* video, no window, no highlighted position, nothing made of what was fetched.
C8_FetchFailureFatal ==
    error = "fetch" =>
        /\ pc = "crashed"
        /\ ~ENABLED Next
        /\ \A id \in DOMAIN fetches : fetches[id] <= 1
        /\ ~IndexComputed
        /\ highlight = <<>>
        /\ calls = <<>> /\ line = EmptyArtist /\ returned = <<>>
        /\ video = <<>>
        /\ ~shown
        /\ console = <<>>

\* C8's case: the comet and Earth were fetched, then Mars's query failed
C8_Witness ==
    /\ error = "fetch"
    /\ fetches[obj_id] = 1
    /\ DOMAIN planet_positions = {"Earth"}

---------------------------------------------------------------------------
(* The Exporter *)

\* C9: a missing encoder aborts the video and nothing else: the interactive
\* display and the printed highlight position are not lost to it.
C9_DisplaySurvivesExportFailure ==
    pc = "crashed" /\ error = "encoder" => shown /\ PositionPrinted

=============================================================================
